---- MODULE Spec2Model ----
\* A model of quickwit-actors/src/actor.rs: the ActorContext of one calling
\* actor "A" (blocking or cooperative flavor), the context of a peer actor "B",
\* the scheduler's mailbox "S", the kill switch both contexts share, and the
\* supervisor that polls A's progress.  The mailbox, progress tracker, atomic
\* state, kill switch, scheduler and run loop live in other files of the crate;
\* they are modelled from their contracts.  Context calls are made by whoever
\* holds a clone of A's context, so A's run loop may take messages meanwhile.
EXTENDS Integers, Sequences, FiniteSets, TLC

\* ---------------------------------------------------------------- bounds
MaxCalls == 2      \* number of send / schedule calls made on A's context
Cap == 1           \* capacity of each mailbox
E2ECap == 2        \* capacity of B's mailbox in the end-to-end scenario
MaxDelay == 1      \* largest after_duration, in clock ticks
MaxGuards == 1     \* protect-zone guards the handler holds itself

Actors == {"A", "B"}
Caller == "A"
Peer == "B"
Sched == "S"
Mailboxes == {"A", "B", "S"}
Flavors == {"sync", "async"}
Reasons == {"OnDemand", "DownstreamClosed", "Failure", "Finished", "KillSwitch"}
\* The causes a Failure may carry, and the values of SendError.
Causes == {"io", "parse"}
SendErrors == {"Err", "WouldDeadlock"}

VARIABLES
    flavor,        \* SyncActor or AsyncActor: fixed per actor implementation
    inner,         \* ActorContextInner of each context: the fields set once by new()
    termination,   \* the ActorTermination last passed to terminate() on A's context
    budget,        \* how many send / schedule calls the caller will make
    kill_switch,   \* the KillSwitch shared by all contexts: "alive" / "dead"
    actor_state,   \* ActorContextInner.actor_state of each context
    progress,      \* ActorContextInner.progress: 0 NoUpdate, 1 Updated, 2+n ProtectedZone(n)
    mailbox,       \* each mailbox: ordinary queue, command queue, closed flag
    capacity,      \* QueueCapacity of each mailbox, set when the actor is spawned
    pc,            \* where the caller is inside a context call
    calls,         \* number of send / schedule calls made so far
    result,        \* what the last context call returned
    guards,        \* guards returned by ctx.protect_zone() still held by the handler
    tpc,           \* A's run loop inside terminate(): "none", or the class of its reason
    terminated_by, \* the class of the reason of the last terminate() that returned on A
    timers         \* events the scheduler holds until their timeout has run down

vars == <<flavor, inner, termination, budget, kill_switch, actor_state, progress, mailbox, capacity, pc,
          calls, result, guards, tpc, terminated_by, timers>>

\* One record shape for everything that travels: k is the kind, n the number of
\* the call that made it.  d, el, ok and behind are bookkeeping for the checks:
\* the after_duration asked for, the ticks elapsed since the scheduling call,
\* whether delivery came after d ticks, and the ordinary messages waiting in the
\* own mailbox when the command was delivered.
NoMsg == [k |-> "none", n |-> 0, d |-> 0, timeout |-> 0, el |-> 0, ok |-> TRUE, behind |-> {}]
Idle == [at |-> "idle", to |-> "-", op |-> "-", m |-> NoMsg]
\* val is what the call returned, raw what the mailbox's send returned to it.
NoResult == [op |-> "-", val |-> "-", raw |-> "-"]

\* ------------------------------------------------- termination taxonomy
\* The values of ActorTermination: tag is the variant, cause what a Failure
\* carries.  from is bookkeeping for the checks: the SendError a value was
\* converted from, which the value itself does not keep.
OnDemand == [tag |-> "OnDemand", cause |-> "-", from |-> "-"]
DownstreamClosed == [tag |-> "DownstreamClosed", cause |-> "-", from |-> "-"]
Failure(cause) == [tag |-> "Failure", cause |-> cause, from |-> "-"]
Finished == [tag |-> "Finished", cause |-> "-", from |-> "-"]
KillSwitch == [tag |-> "KillSwitch", cause |-> "-", from |-> "-"]
NoTermination == [tag |-> "none", cause |-> "-", from |-> "-"]

\* Variant: a termination by the kill switch counts as a failure.
is_failure_killswitch(r) ==
    CASE r.tag = "OnDemand" -> FALSE
      [] r.tag = "DownstreamClosed" -> TRUE
      [] r.tag = "Failure" -> TRUE
      [] r.tag = "Finished" -> FALSE
      [] r.tag = "KillSwitch" -> TRUE

\* ActorTermination::is_failure
is_failure(r) ==
    CASE r.tag = "OnDemand" -> FALSE
      [] r.tag = "DownstreamClosed" -> TRUE
      [] r.tag = "Failure" -> TRUE
      [] r.tag = "Finished" -> FALSE
      [] r.tag = "KillSwitch" -> FALSE

\* Variant: WouldDeadlock is taken as the end of the actor's work.
From_SendError_partial(e) ==
    IF e = "WouldDeadlock" THEN [Finished EXCEPT !.from = e]
    ELSE [DownstreamClosed EXCEPT !.from = e]

\* impl From<SendError> for ActorTermination: the error is dropped.
From_SendError(e) == [DownstreamClosed EXCEPT !.from = e]

\* What terminate() is called with: a value the run loop or the handler made,
\* or a send error the handler passed on with `?`.
ActorTermination ==
    {OnDemand, DownstreamClosed, Finished, KillSwitch}
        \cup {Failure(cause) : cause \in Causes}
        \cup {From_SendError(e) : e \in SendErrors}

\* ActorContext::new: the name is the own mailbox's, the rest is stored as given.
ActorContext_new(self_mailbox, scheduler_mailbox) ==
    [actor_instance_name |-> self_mailbox,
     self_mailbox |-> self_mailbox,
     scheduler_mailbox |-> scheduler_mailbox]

\* The accessors of the fields new() set.
self_mailbox(a) == inner[a].self_mailbox
actor_instance_name(a) == inner[a].actor_instance_name
scheduler_mailbox(a) == inner[a].scheduler_mailbox

\* The handles to the contexts: A0 is what new() returned for A, A1 the clone
\* the handler holds, A2 a clone of A1 captured by a deferred callback; B0 is B's.
Handles == {"A0", "A1", "A2", "B0"}
AClones == {"A0", "A1", "A2"}

\* Variant: the clone refers to another ActorContextInner than its original.
ActorContext_clone_other(i) == IF i = Caller THEN Peer ELSE Caller

\* Clone: the new handle holds a clone of the Arc, so it refers to the same
\* ActorContextInner.
ActorContext_clone(i) == i

\* Deref: the ActorContextInner a handle refers to.
deref(h) ==
    CASE h = "A0" -> Caller
      [] h = "A1" -> ActorContext_clone(Caller)
      [] h = "A2" -> ActorContext_clone(ActorContext_clone(Caller))
      [] h = "B0" -> Peer

\* -------------------------------------------- collaborators (contracts)
\* Progress: protect_zone enters or nests the protected zone.
Progress_protect_zone(p) == IF p < 2 THEN 2 ELSE p + 1
\* Dropping a ProtectZoneGuard leaves one level of the zone.
ProtectZoneGuard_drop(p) == p - 1
\* Progress: record_progress marks an update unless the zone is held.
Progress_record_progress(p) == IF p < 1 THEN 1 ELSE p
\* Progress: what the supervisor reads, and what its read leaves behind.
Progress_registered_activity(p) == p >= 1
Progress_after_poll(p) == IF p = 1 THEN 0 ELSE p
\* The supervisor's classification of an actor from its progress.
Classify(p) == IF Progress_registered_activity(p) THEN "alive" ELSE "stalled"
Protected(p) == p >= 2
ZoneLevel(p) == IF p >= 2 THEN p - 1 ELSE 0

\* Variant: resume stores Running whatever the state was.
AtomicState_resume_store(s) == "Running"

\* AtomicState: pause, resume and terminate.
AtomicState_pause(s) == IF s = "Running" THEN "Paused" ELSE s
AtomicState_resume(s) == IF s = "Paused" THEN "Running" ELSE s
AtomicState_terminate(s) == "Terminated"

\* KillSwitch: kill is a one-way trip.
KillSwitch_kill(k) == "dead"

\* Mailbox: capacity, and the two queues.
HasRoom(mb) == Len(mailbox[mb].msgs) < capacity[mb]
\* Variant: the newest message goes to the front of the queue.
Mailbox_push_front(mb, m) == [mailbox EXCEPT ![mb].msgs = <<m>> \o @]

Mailbox_push(mb, m) == [mailbox EXCEPT ![mb].msgs = Append(@, m)]
Mailbox_send_command(mb, m) == [mailbox EXCEPT ![mb].cmds = Append(@, m)]
EmptyMailbox == [msgs |-> <<>>, cmds |-> <<>>, closed |-> FALSE]
ClosedMailbox == [msgs |-> <<>>, cmds |-> <<>>, closed |-> TRUE]

Init ==
    /\ flavor \in Flavors
    /\ inner = [a \in Actors |-> ActorContext_new(a, Sched)]
    /\ termination = NoTermination
    /\ budget = MaxCalls
    /\ kill_switch = "alive"
    /\ actor_state = [a \in Actors |-> "Running"]
    /\ progress = [a \in Actors |-> 0]
    /\ mailbox = [mb \in Mailboxes |-> EmptyMailbox]
    /\ capacity = [mb \in Mailboxes |-> Cap]
    /\ pc = Idle
    /\ calls = 0
    /\ result = NoResult
    /\ guards = 0
    /\ tpc = "none"
    /\ terminated_by = "none"
    /\ timers = {}

\* ------------------------------------------------ state accessors
get_state(a) == actor_state[a]

\* Variant: pausing also renames the context.
pause_rename(a) ==
    /\ a = Caller => tpc = "none"
    /\ actor_state' = [actor_state EXCEPT ![a] = AtomicState_pause(@)]
    /\ actor_state' # actor_state
    /\ inner' = [inner EXCEPT ![a].actor_instance_name = "paused"]
    /\ UNCHANGED <<flavor, termination, budget, capacity, terminated_by, kill_switch, progress,
                   mailbox, pc, calls, result, guards, tpc, timers>>

\* The run loop of a calls pause / resume; A's run loop is not inside terminate.
pause(a) ==
    /\ a = Caller => tpc = "none"
    /\ actor_state' = [actor_state EXCEPT ![a] = AtomicState_pause(@)]
    /\ actor_state' # actor_state
    /\ UNCHANGED <<flavor, inner, termination, budget, capacity, terminated_by, kill_switch, progress, mailbox, pc, calls, result,
                   guards, tpc, timers>>

resume(a) ==
    /\ a = Caller => tpc = "none"
    /\ actor_state' = [actor_state EXCEPT ![a] = AtomicState_resume(@)]
    /\ actor_state' # actor_state
    /\ UNCHANGED <<flavor, inner, termination, budget, capacity, terminated_by, kill_switch, progress, mailbox, pc, calls, result,
                   guards, tpc, timers>>

\* What the checks remember of a termination reason: the class the termination
\* taxonomy's table gives it.
FailingReasons == {"DownstreamClosed", "Failure"}
ReasonClass(r) == IF r.tag \in FailingReasons THEN "failing" ELSE "quiet"

\* Variants of the escalation: never tripping, always tripping, and writing the
\* switch from the reason.
terminate_escalate_never(k, r) == k
terminate_escalate_always(k, r) == KillSwitch_kill(k)
terminate_escalate_assign(k, r) == IF is_failure(r) THEN "dead" ELSE "alive"

\* terminate, first half: escalate the kill switch when the reason is a failure.
terminate_escalate(k, r) == IF is_failure(r) THEN KillSwitch_kill(k) ELSE k
\* terminate, second half: mark the run-state terminal.
terminate_mark(s) == AtomicState_terminate(s)

\* Variant: the run-state is marked terminal first, the switch not yet tripped.
terminate_call_mark_first(r) ==
    /\ tpc = "none"
    /\ r.from \in SendErrors => result.val = r.from
    /\ actor_state' = [actor_state EXCEPT ![Caller] = terminate_mark(@)]
    /\ tpc' = ReasonClass(r)
    /\ termination' = r
    /\ UNCHANGED <<flavor, inner, budget, capacity, terminated_by, kill_switch, progress, mailbox,
                   pc, calls, result, guards, timers>>

\* A's terminate in its two writes, so that other threads run in between.
terminate_call(r) ==
    /\ tpc = "none"
    /\ r.from \in SendErrors => result.val = r.from
    /\ kill_switch' = terminate_escalate(kill_switch, r)
    /\ tpc' = ReasonClass(r)
    /\ termination' = r
    /\ UNCHANGED <<flavor, inner, budget, capacity, terminated_by, actor_state, progress, mailbox, pc, calls, result,
                   guards, timers>>

terminate_ret ==
    /\ tpc # "none"
    /\ actor_state' = [actor_state EXCEPT ![Caller] = terminate_mark(@)]
    /\ tpc' = "none"
    /\ terminated_by' = tpc
    /\ UNCHANGED <<flavor, inner, termination, budget, capacity, kill_switch, progress, mailbox, pc, calls, result,
                   guards, timers>>

\* The peer's terminate, the same code on B's context, taken as one step.
peer_terminate(r) ==
    /\ kill_switch' = terminate_escalate(kill_switch, r)
    /\ actor_state' = [actor_state EXCEPT ![Peer] = terminate_mark(@)]
    /\ <<kill_switch', actor_state'>> # <<kill_switch, actor_state>>
    /\ UNCHANGED <<flavor, inner, termination, budget, capacity, terminated_by, progress, mailbox, pc, calls, result,
                   guards, tpc, timers>>

\* ------------------------------------------------ liveness guard
protect_zone(a) ==
    /\ a = Caller /\ pc.at = "idle" /\ guards < MaxGuards
    /\ progress' = [progress EXCEPT ![a] = Progress_protect_zone(@)]
    /\ guards' = guards + 1
    /\ UNCHANGED <<flavor, inner, termination, budget, capacity, terminated_by, kill_switch, actor_state, mailbox, pc, calls, result,
                   tpc, timers>>

drop_guard(a) ==
    /\ a = Caller /\ pc.at = "idle" /\ guards > 0
    /\ progress' = [progress EXCEPT ![a] = ProtectZoneGuard_drop(@)]
    /\ guards' = guards - 1
    /\ UNCHANGED <<flavor, inner, termination, budget, capacity, terminated_by, kill_switch, actor_state, mailbox, pc, calls, result,
                   tpc, timers>>

record_progress(a) ==
    /\ a = Caller /\ pc.at = "idle"
    /\ progress' = [progress EXCEPT ![a] = Progress_record_progress(@)]
    /\ UNCHANGED <<flavor, inner, termination, budget, capacity, terminated_by, kill_switch, actor_state, mailbox, pc, calls, result,
                   guards, tpc, timers>>

\* ------------------------------------------------ messages
Message(n) == [NoMsg EXCEPT !.k = "msg", !.n = n]

Waiting(mb) == {mailbox[mb].msgs[i].n : i \in 1..Len(mailbox[mb].msgs)}

\* Command::HighPriorityMessage(msg), as the callback delivers it.
HighPriorityMessage(ev) ==
    [NoMsg EXCEPT !.k = "hp", !.n = ev.n, !.d = ev.d, !.ok = (ev.el >= ev.d),
                  !.behind = Waiting(Caller)]

\* Variant: the deferred action delivers an ordinary message.
Callback_ordinary(ev) ==
    IF mailbox[Caller].closed
    THEN mailbox
    ELSE Mailbox_push(Caller, HighPriorityMessage(ev))

\* The deferred action: deliver the command to the own mailbox, ignoring failure.
Callback(ev) ==
    IF mailbox[Caller].closed
    THEN mailbox
    ELSE Mailbox_send_command(Caller, HighPriorityMessage(ev))

\* Variant: the request carries no timeout.
ScheduleEvent_now(after_duration, n) ==
    [NoMsg EXCEPT !.k = "ScheduleEvent", !.n = n, !.d = after_duration, !.timeout = 0]

\* SchedulerMessage::ScheduleEvent { timeout: after_duration, callback }
ScheduleEvent(after_duration, n) ==
    [NoMsg EXCEPT !.k = "ScheduleEvent", !.n = n, !.d = after_duration,
                  !.timeout = after_duration]

\* ------------------------------------------------ peer sends
\* Variants: no guard is taken; progress is recorded instead of taking the guard.
SendGuard_none(p) == p
SendGuard_record(p) == Progress_record_progress(p)
\* Variant: the guard is kept when the send fails.
SendGuardRelease_forget(p, val) == IF val = "Err" THEN p ELSE ProtectZoneGuard_drop(p)
\* Variant: the scheduling call hands the send's result on.
ScheduleResult_propagate(val) == val

\* let _guard = self.protect_zone();
SendGuard(p) == Progress_protect_zone(p)
\* _guard goes out of scope when the send returns val.
SendGuardRelease(p, val) == ProtectZoneGuard_drop(p)
\* send_message(_blocking) hands the mailbox's result on; schedule_self_msg(_blocking)
\* discards it (let _ = ...).
SendResult(val) == val
ScheduleResult(val) == "unit"
OpResult(op, val) ==
    IF op \in {"schedule_self_msg_blocking", "schedule_self_msg"}
    THEN ScheduleResult(val)
    ELSE SendResult(val)

PeerSendReturn(op, val, p, mb) ==
    /\ pc' = Idle
    /\ progress' = [progress EXCEPT ![Caller] = SendGuardRelease(p, val)]
    /\ mailbox' = mb
    /\ result' = [op |-> op, val |-> OpResult(op, val), raw |-> val]

\* The guard is taken, then the mailbox's send is tried: it fails on a closed
\* mailbox, completes when there is room, and waits otherwise.
PeerSendStart(to, m, op) ==
    /\ pc.at = "idle" /\ calls < budget
    /\ calls' = calls + 1
    /\ LET p1 == SendGuard(progress[Caller]) IN
       IF mailbox[to].closed
       THEN PeerSendReturn(op, "Err", p1, mailbox)
       ELSE IF HasRoom(to)
       THEN PeerSendReturn(op, "Ok", p1, Mailbox_push(to, m))
       ELSE /\ pc' = [at |-> "sending", to |-> to, op |-> op, m |-> m]
            /\ progress' = [progress EXCEPT ![Caller] = p1]
            /\ UNCHANGED <<mailbox, result>>
    /\ UNCHANGED <<flavor, inner, termination, budget, capacity, terminated_by, kill_switch, actor_state, guards, tpc, timers>>

\* The waiting send wakes up: room has appeared or the receiver is gone.
PeerSendFinish(op) ==
    /\ pc.at = "sending" /\ pc.op = op
    /\ \/ /\ mailbox[pc.to].closed
          /\ PeerSendReturn(op, "Err", progress[Caller], mailbox)
       \/ /\ ~mailbox[pc.to].closed /\ HasRoom(pc.to)
          /\ PeerSendReturn(op, "Ok", progress[Caller], Mailbox_push(pc.to, pc.m))
    /\ UNCHANGED <<flavor, inner, termination, budget, capacity, terminated_by, kill_switch, actor_state, calls, guards, tpc, timers>>

send_message_blocking_call ==
    /\ flavor = "sync"
    /\ PeerSendStart(Peer, Message(calls + 1), "send_message_blocking")

send_message_blocking_ret ==
    /\ flavor = "sync"
    /\ PeerSendFinish("send_message_blocking")

send_message_call ==
    /\ flavor = "async"
    /\ PeerSendStart(Peer, Message(calls + 1), "send_message")

send_message_ret ==
    /\ flavor = "async"
    /\ PeerSendFinish("send_message")

\* ------------------------------------------------ self sends
SelfSendReturn(op, val, mb) ==
    /\ pc' = Idle
    /\ mailbox' = mb
    /\ result' = [op |-> op, val |-> val, raw |-> val]

\* Variant: the failure of try_send is not mapped to WouldDeadlock.
try_send_result_unmapped(mb) == IF ~mailbox[mb].closed /\ HasRoom(mb) THEN "Ok" ELSE "Err"

\* Variant: only a full mailbox is reported as WouldDeadlock.
try_send_result_by_cause(mb) ==
    IF mailbox[mb].closed THEN "Err"
    ELSE IF HasRoom(mb) THEN "Ok" ELSE "WouldDeadlock"

\* tx.try_send(..).map_err(|_| WouldDeadlock)
try_send_result(mb) == IF ~mailbox[mb].closed /\ HasRoom(mb) THEN "Ok" ELSE "WouldDeadlock"

send_self_message_blocking ==
    /\ flavor = "sync"
    /\ pc.at = "idle" /\ calls < budget
    /\ calls' = calls + 1
    /\ IF try_send_result(self_mailbox(Caller)) = "Ok"
       THEN SelfSendReturn("send_self_message_blocking", "Ok",
                           Mailbox_push(self_mailbox(Caller), Message(calls + 1)))
       ELSE SelfSendReturn("send_self_message_blocking", try_send_result(self_mailbox(Caller)), mailbox)
    /\ UNCHANGED <<flavor, inner, termination, budget, capacity, terminated_by, kill_switch, actor_state, progress, guards, tpc, timers>>

\* self_mailbox.send_message(msg).await, first poll: on a full mailbox the
\* call suspends.
AsyncSelfSend(on_full) ==
    /\ flavor = "async"
    /\ pc.at = "idle" /\ calls < budget
    /\ calls' = calls + 1
    /\ IF mailbox[self_mailbox(Caller)].closed
       THEN SelfSendReturn("send_self_message", "Err", mailbox)
       ELSE IF HasRoom(self_mailbox(Caller))
       THEN SelfSendReturn("send_self_message", "Ok", Mailbox_push(self_mailbox(Caller), Message(calls + 1)))
       ELSE IF on_full = "suspend"
       THEN /\ pc' = [at |-> "self_sending", to |-> self_mailbox(Caller),
                      op |-> "send_self_message", m |-> Message(calls + 1)]
            /\ UNCHANGED <<mailbox, result>>
       ELSE SelfSendReturn("send_self_message", on_full, mailbox)
    /\ UNCHANGED <<flavor, inner, termination, budget, capacity, terminated_by, kill_switch, actor_state,
                   progress, guards, tpc, timers>>

\* Variant: the cooperative self send takes the guard as a peer send does.
send_self_message_call_guarded ==
    /\ flavor = "async"
    /\ pc.at = "idle" /\ calls < budget
    /\ calls' = calls + 1
    /\ progress' = [progress EXCEPT ![Caller] = Progress_protect_zone(@)]
    /\ IF mailbox[Caller].closed
       THEN SelfSendReturn("send_self_message", "Err", mailbox)
       ELSE IF HasRoom(Caller)
       THEN SelfSendReturn("send_self_message", "Ok", Mailbox_push(Caller, Message(calls + 1)))
       ELSE /\ pc' = [at |-> "self_sending", to |-> Caller,
                      op |-> "send_self_message", m |-> Message(calls + 1)]
            /\ UNCHANGED <<mailbox, result>>
    /\ UNCHANGED <<flavor, inner, termination, budget, capacity, terminated_by, kill_switch,
                   actor_state, guards, tpc, timers>>

\* Variant: a single attempt, as in the blocking flavor.
send_self_message_call_nowait == AsyncSelfSend("WouldDeadlock")

send_self_message_call == AsyncSelfSend("suspend")

\* the suspended self send is woken
send_self_message_ret ==
    /\ flavor = "async"
    /\ pc.at = "self_sending"
    /\ \/ /\ mailbox[self_mailbox(Caller)].closed
          /\ SelfSendReturn("send_self_message", "Err", mailbox)
       \/ /\ ~mailbox[self_mailbox(Caller)].closed /\ HasRoom(self_mailbox(Caller))
          /\ SelfSendReturn("send_self_message", "Ok", Mailbox_push(self_mailbox(Caller), pc.m))
    /\ UNCHANGED <<flavor, inner, termination, budget, capacity, terminated_by, kill_switch, actor_state, progress, calls, guards, tpc,
                   timers>>

\* ------------------------------------------------ deferred self messages
schedule_self_msg_blocking_call(after_duration) ==
    /\ flavor = "sync"
    /\ PeerSendStart(scheduler_mailbox(Caller), ScheduleEvent(after_duration, calls + 1),
                     "schedule_self_msg_blocking")

schedule_self_msg_blocking_ret ==
    /\ flavor = "sync"
    /\ PeerSendFinish("schedule_self_msg_blocking")

schedule_self_msg_call(after_duration) ==
    /\ flavor = "async"
    /\ PeerSendStart(scheduler_mailbox(Caller), ScheduleEvent(after_duration, calls + 1),
                     "schedule_self_msg")

schedule_self_msg_ret ==
    /\ flavor = "async"
    /\ PeerSendFinish("schedule_self_msg")

\* ------------------------------------------------ the scheduler
\* The scheduler takes a request and arms a timer with the request's timeout.
Scheduler_recv ==
    /\ mailbox[Sched].msgs # <<>>
    /\ timers' = timers \cup {Head(mailbox[Sched].msgs)}
    /\ mailbox' = [mailbox EXCEPT ![Sched].msgs = Tail(@)]
    /\ UNCHANGED <<flavor, inner, termination, budget, capacity, terminated_by, kill_switch, actor_state, progress, pc, calls, result,
                   guards, tpc>>

\* A timer whose timeout has run down invokes its callback, once.
Scheduler_fire(t) ==
    /\ t \in timers /\ t.timeout = 0
    /\ timers' = timers \ {t}
    /\ mailbox' = Callback(t)
    /\ UNCHANGED <<flavor, inner, termination, budget, capacity, terminated_by, kill_switch, actor_state, progress, pc, calls, result,
                   guards, tpc>>

\* The scheduler stops: its mailbox is closed and the requests in it are dropped.
Scheduler_exit ==
    /\ ~mailbox[Sched].closed
    /\ mailbox' = [mailbox EXCEPT ![Sched] = ClosedMailbox]
    /\ UNCHANGED <<flavor, inner, termination, budget, capacity, terminated_by, kill_switch, actor_state, progress, pc, calls, result,
                   guards, tpc, timers>>

\* One tick of the clock: armed timers run down, and every scheduling request
\* still on its way has waited one tick more.
Aged(ev) == [ev EXCEPT !.el = IF ev.k = "ScheduleEvent" /\ @ < ev.d THEN @ + 1 ELSE @]
RunDown(t) == [Aged(t) EXCEPT !.timeout = IF @ > 0 THEN @ - 1 ELSE 0]
Tick ==
    /\ timers' = {RunDown(t) : t \in timers}
    /\ mailbox' = [mailbox EXCEPT ![Sched].msgs =
                       [i \in 1..Len(@) |-> Aged(@[i])]]
    /\ pc' = [pc EXCEPT !.m = Aged(@)]
    /\ <<timers', mailbox', pc'>> # <<timers, mailbox, pc>>
    /\ UNCHANGED <<flavor, inner, termination, budget, capacity, terminated_by, kill_switch, actor_state, progress, calls, result,
                   guards, tpc>>

\* ------------------------------------------------ run loops and supervisor
\* The run loop takes a command first; ordinary messages only while Running.
run_loop_recv(a) ==
    /\ a = Caller => tpc = "none"
    /\ actor_state[a] # "Terminated"
    /\ IF mailbox[a].cmds # <<>>
       THEN /\ mailbox' = [mailbox EXCEPT ![a].cmds = Tail(@)]
       ELSE /\ actor_state[a] = "Running"
            /\ mailbox[a].msgs # <<>>
            /\ mailbox' = [mailbox EXCEPT ![a].msgs = Tail(@)]
    /\ UNCHANGED <<flavor, inner, termination, budget, capacity, terminated_by, kill_switch, actor_state, progress, pc, calls, result,
                   guards, tpc, timers>>

\* A terminated actor's run loop ends and drops its receiver.
run_loop_exit(a) ==
    /\ a = Caller => tpc = "none"
    /\ actor_state[a] = "Terminated"
    /\ ~mailbox[a].closed
    /\ mailbox' = [mailbox EXCEPT ![a] = ClosedMailbox]
    /\ UNCHANGED <<flavor, inner, termination, budget, capacity, terminated_by, kill_switch, actor_state, progress, pc, calls, result,
                   guards, tpc, timers>>

\* The supervisor polls the caller's progress; its read clears the update mark.
Poll ==
    /\ progress' = [progress EXCEPT ![Caller] = Progress_after_poll(@)]
    /\ progress' # progress
    /\ UNCHANGED <<flavor, inner, termination, budget, capacity, terminated_by, kill_switch, actor_state, mailbox, pc, calls, result,
                   guards, tpc, timers>>

Next ==
    \/ \E a \in Actors : pause(a)
    \/ \E a \in Actors : resume(a)
    \/ \E r \in ActorTermination : terminate_call(r)
    \/ terminate_ret
    \/ \E r \in ActorTermination : peer_terminate(r)
    \/ protect_zone(Caller)
    \/ drop_guard(Caller)
    \/ record_progress(Caller)
    \/ send_message_blocking_call
    \/ send_message_blocking_ret
    \/ send_message_call
    \/ send_message_ret
    \/ send_self_message_blocking
    \/ send_self_message_call
    \/ send_self_message_ret
    \/ \E d \in 0..MaxDelay : schedule_self_msg_blocking_call(d)
    \/ schedule_self_msg_blocking_ret
    \/ \E d \in 0..MaxDelay : schedule_self_msg_call(d)
    \/ schedule_self_msg_ret
    \/ Scheduler_recv
    \/ \E t \in timers : Scheduler_fire(t)
    \/ Scheduler_exit
    \/ Tick
    \/ \E a \in Actors : run_loop_recv(a)
    \/ \E a \in Actors : run_loop_exit(a)
    \/ Poll

Spec == Init /\ [][Next]_vars

\* ------------------------------------------------ focused specifications
\* The run-state and the kill switch of both contexts.
NextLife ==
    \/ \E a \in Actors : pause(a)
    \/ \E a \in Actors : resume(a)
    \/ \E r \in ActorTermination : terminate_call(r)
    \/ terminate_ret
    \/ \E r \in ActorTermination : peer_terminate(r)
    \/ \E a \in Actors : run_loop_exit(a)
    \/ record_progress(Caller)
    \/ Poll

LifeSpec == Init /\ [][NextLife]_vars

\* Peer sends of either flavor to B, B's run loop, and the supervisor.
NextSend ==
    \/ send_message_blocking_call
    \/ send_message_blocking_ret
    \/ send_message_call
    \/ send_message_ret
    \/ pause(Peer)
    \/ resume(Peer)
    \/ \E r \in ActorTermination : peer_terminate(r)
    \/ run_loop_recv(Peer)
    \/ run_loop_exit(Peer)
    \/ protect_zone(Caller)
    \/ drop_guard(Caller)
    \/ record_progress(Caller)
    \/ Poll

SendSpec == Init /\ [][NextSend]_vars

\* Self sends of either flavor and A's own run loop.
NextSelf ==
    \/ send_self_message_blocking
    \/ send_self_message_call
    \/ send_self_message_ret
    \/ pause(Caller)
    \/ resume(Caller)
    \/ \E r \in ActorTermination : terminate_call(r)
    \/ terminate_ret
    \/ run_loop_recv(Caller)
    \/ run_loop_exit(Caller)
    \/ record_progress(Caller)
    \/ Poll

SelfSpec == Init /\ [][NextSelf]_vars

\* Self sends made by a handler that also holds protect-zone guards of its own.
NextSelfZone ==
    \/ NextSelf
    \/ protect_zone(Caller)
    \/ drop_guard(Caller)

SelfZoneSpec == Init /\ [][NextSelfZone]_vars

\* The runtime wakes a suspended send once its mailbox has room or is closed.
FairSelfSpec == SelfSpec /\ WF_vars(send_self_message_ret)

\* Deferred self messages: the scheduling calls, the scheduler, the clock, and
\* self sends that put ordinary messages in the own mailbox.
NextSched ==
    \/ \E d \in 0..MaxDelay : schedule_self_msg_blocking_call(d)
    \/ schedule_self_msg_blocking_ret
    \/ \E d \in 0..MaxDelay : schedule_self_msg_call(d)
    \/ schedule_self_msg_ret
    \/ send_self_message_blocking
    \/ send_self_message_call
    \/ send_self_message_ret
    \/ Scheduler_recv
    \/ \E t \in timers : Scheduler_fire(t)
    \/ Scheduler_exit
    \/ Tick
    \/ pause(Caller)
    \/ resume(Caller)
    \/ \E r \in ActorTermination : terminate_call(r)
    \/ terminate_ret
    \/ run_loop_recv(Caller)
    \/ run_loop_exit(Caller)

SchedSpec == Init /\ [][NextSched]_vars

\* The end-to-end scenario: blocking-flavor A sends E2ECap + 1 messages to B,
\* whose mailbox holds E2ECap and whose handler is paused until it is resumed.
InitE2E ==
    /\ flavor = "sync"
    /\ inner = [a \in Actors |-> ActorContext_new(a, Sched)]
    /\ termination = NoTermination
    /\ budget = E2ECap + 1
    /\ kill_switch = "alive"
    /\ actor_state = [a \in Actors |-> IF a = Peer THEN "Paused" ELSE "Running"]
    /\ progress = [a \in Actors |-> 0]
    /\ mailbox = [mb \in Mailboxes |-> EmptyMailbox]
    /\ capacity = [mb \in Mailboxes |-> IF mb = Peer THEN E2ECap ELSE Cap]
    /\ pc = Idle
    /\ calls = 0
    /\ result = NoResult
    /\ guards = 0
    /\ tpc = "none"
    /\ terminated_by = "none"
    /\ timers = {}

NextE2E ==
    \/ send_message_blocking_call
    \/ send_message_blocking_ret
    \/ resume(Peer)
    \/ run_loop_recv(Peer)
    \/ pause(Caller)
    \/ resume(Caller)
    \/ \E r \in ActorTermination : terminate_call(r)
    \/ terminate_ret
    \/ protect_zone(Caller)
    \/ drop_guard(Caller)
    \/ record_progress(Caller)
    \/ Poll

SpecE2E == InitE2E /\ [][NextE2E]_vars

\* A's thread runs, B is resumed, B's run loop runs, and a blocked send is
\* woken once there is room.
FairSpecE2E ==
    /\ SpecE2E
    /\ WF_vars(send_message_blocking_call)
    /\ WF_vars(send_message_blocking_ret)
    /\ WF_vars(resume(Peer))
    /\ WF_vars(run_loop_recv(Peer))

\* terminate called through a handle.
terminate_through(h, r) ==
    IF deref(h) = Caller THEN terminate_call(r) ELSE peer_terminate(r)

\* The run-state operations, each made through any of the handles.
NextClone ==
    \/ \E h \in Handles : pause(deref(h))
    \/ \E h \in Handles : resume(deref(h))
    \/ \E h \in Handles, r \in ActorTermination : terminate_through(h, r)
    \/ terminate_ret
    \/ \E h \in Handles : run_loop_exit(deref(h))
    \/ record_progress(deref("A1"))
    \/ Poll

CloneSpec == Init /\ [][NextClone]_vars

\* One sender, A, making E2ECap + 1 calls of any kind of its flavor: peer sends
\* to B, self sends and scheduled self messages; mailboxes hold E2ECap messages.
InitOrder ==
    /\ flavor \in Flavors
    /\ inner = [a \in Actors |-> ActorContext_new(a, Sched)]
    /\ termination = NoTermination
    /\ budget = E2ECap + 1
    /\ kill_switch = "alive"
    /\ actor_state = [a \in Actors |-> "Running"]
    /\ progress = [a \in Actors |-> 0]
    /\ mailbox = [mb \in Mailboxes |-> EmptyMailbox]
    /\ capacity = [mb \in Mailboxes |-> E2ECap]
    /\ pc = Idle
    /\ calls = 0
    /\ result = NoResult
    /\ guards = 0
    /\ tpc = "none"
    /\ terminated_by = "none"
    /\ timers = {}

NextOrder ==
    \/ send_message_blocking_call
    \/ send_message_blocking_ret
    \/ send_message_call
    \/ send_message_ret
    \/ send_self_message_blocking
    \/ send_self_message_call
    \/ send_self_message_ret
    \/ \E d \in 0..MaxDelay : schedule_self_msg_blocking_call(d)
    \/ schedule_self_msg_blocking_ret
    \/ \E d \in 0..MaxDelay : schedule_self_msg_call(d)
    \/ schedule_self_msg_ret
    \/ Scheduler_recv
    \/ \E t \in timers : Scheduler_fire(t)
    \/ Tick
    \/ pause(Peer)
    \/ resume(Peer)
    \/ \E a \in Actors : run_loop_recv(a)

OrderSpec == InitOrder /\ [][NextOrder]_vars

\* A handler that sends, and a run loop that terminates the actor with what the
\* handler returned: a value of its own, or a send error passed on.
NextHandler ==
    \/ send_message_blocking_call
    \/ send_message_blocking_ret
    \/ send_message_call
    \/ send_message_ret
    \/ send_self_message_blocking
    \/ send_self_message_call
    \/ send_self_message_ret
    \/ \E r \in ActorTermination : terminate_call(r)
    \/ terminate_ret
    \/ \E r \in ActorTermination : peer_terminate(r)
    \/ \E a \in Actors : run_loop_exit(a)

HandlerSpec == Init /\ [][NextHandler]_vars

\* Every operation of A's context, with what lets a waiting call return: the
\* run loops that take messages and the scheduler that takes requests.
NextOps ==
    \/ pause(Caller)
    \/ resume(Caller)
    \/ \E r \in ActorTermination : terminate_call(r)
    \/ terminate_ret
    \/ protect_zone(Caller)
    \/ drop_guard(Caller)
    \/ record_progress(Caller)
    \/ send_message_blocking_call
    \/ send_message_blocking_ret
    \/ send_message_call
    \/ send_message_ret
    \/ send_self_message_blocking
    \/ send_self_message_call
    \/ send_self_message_ret
    \/ \E d \in 0..MaxDelay : schedule_self_msg_blocking_call(d)
    \/ schedule_self_msg_blocking_ret
    \/ \E d \in 0..MaxDelay : schedule_self_msg_call(d)
    \/ schedule_self_msg_ret
    \/ Scheduler_recv
    \/ \E t \in timers : Scheduler_fire(t)
    \/ \E a \in Actors : run_loop_recv(a)

OpsSpec == Init /\ [][NextOps]_vars

TypeOK ==
    /\ flavor \in Flavors
    /\ kill_switch \in {"alive", "dead"}
    /\ actor_state \in [Actors -> {"Running", "Paused", "Terminated"}]
    /\ \A a \in Actors : progress[a] \in 0..(MaxGuards + 2)
    /\ \A mb \in Mailboxes : Len(mailbox[mb].msgs) <= capacity[mb]
    /\ calls \in 0..budget

\* ------------------------------------------------ properties
PeerSendOps == {"send_message_blocking", "send_message"}
SchedOps == {"schedule_self_msg_blocking", "schedule_self_msg"}
SelfFull == ~mailbox[Caller].closed /\ ~HasRoom(Caller)

\* C1: when terminate(r) returns from a failing reason r (DownstreamClosed,
\* Failure), the kill switch is tripped and the context's run-state is terminal,
\* whatever they were before the call.
C1_FailingTerminateTrips ==
    [][(tpc = "failing" /\ tpc' = "none")
         => (kill_switch' = "dead" /\ actor_state'[Caller] = "Terminated")]_vars

C1_Witness ==
    /\ terminated_by = "failing" /\ tpc = "none"
    /\ kill_switch = "dead" /\ actor_state[Caller] = "Terminated"

\* C2: no step of terminate(r) with a non-failing reason r (OnDemand, Finished,
\* KillSwitch) changes the kill switch, the other context, a progress tracker or
\* a mailbox; on return the calling context's run-state is terminal.
C2_QuietTerminateFrame ==
    [][((tpc = "none" /\ tpc' = "quiet") \/ (tpc = "quiet" /\ tpc' = "none"))
         => /\ kill_switch' = kill_switch
            /\ actor_state'[Peer] = actor_state[Peer]
            /\ progress' = progress
            /\ mailbox' = mailbox
            /\ (tpc' = "none" => actor_state'[Caller] = "Terminated")]_vars

C2_Witness ==
    /\ terminated_by = "quiet" /\ tpc = "none"
    /\ kill_switch = "alive" /\ actor_state[Caller] = "Terminated"
    /\ actor_state[Peer] = "Paused"

\* C3: while a peer send of either flavor waits on a full receiver mailbox, the
\* sender is in the protected zone, so a supervisor polling at that point
\* classifies it as alive, never as stalled.
C3_BlockedSenderProtected ==
    (pc.at = "sending" /\ pc.op \in PeerSendOps)
        => (Protected(progress[Caller]) /\ Classify(progress[Caller]) = "alive")

C3_Witness ==
    /\ pc.at = "sending" /\ pc.op = "send_message"
    /\ ~HasRoom(Peer) /\ ~mailbox[Peer].closed
    /\ guards = 0

\* C4: send_self_message_blocking on a full own mailbox returns WouldDeadlock in
\* that one step, without waiting and without changing the mailbox; it is never
\* a suspension point.
BlockingSelfSendStep ==
    /\ calls' = calls + 1
    /\ \/ pc'.at = "idle" /\ result'.op = "send_self_message_blocking"
       \/ pc'.op = "send_self_message_blocking"
C4_SelfSendWouldDeadlock ==
    /\ [][(BlockingSelfSendStep /\ SelfFull)
            => /\ pc'.at = "idle"
               /\ result'.val = "WouldDeadlock"
               /\ mailbox' = mailbox]_vars
    /\ [](pc.op # "send_self_message_blocking")

C4_Witness ==
    /\ result.op = "send_self_message_blocking" /\ result.val = "WouldDeadlock"
    /\ pc.at = "idle" /\ SelfFull

\* C5: send_self_message on a full own mailbox does not fail: the call suspends
\* and returns nothing yet; when it is woken with the mailbox open it returns Ok
\* with the message appended; and once the mailbox has room the suspended call
\* does return.
AsyncSelfSendStep ==
    /\ calls' = calls + 1
    /\ \/ pc'.at = "idle" /\ result'.op = "send_self_message"
       \/ pc'.op = "send_self_message"
C5_SelfSendSuspendsThenCompletes ==
    /\ [][(AsyncSelfSendStep /\ SelfFull)
            => /\ pc'.at = "self_sending"
               /\ result' = result
               /\ mailbox' = mailbox]_vars
    /\ [][(pc.at = "self_sending" /\ pc'.at = "idle" /\ ~mailbox[Caller].closed)
            => /\ HasRoom(Caller)
               /\ result'.val = "Ok"
               /\ mailbox'[Caller].msgs = Append(mailbox[Caller].msgs, pc.m)]_vars
    /\ ((pc.at = "self_sending" /\ ~mailbox[Caller].closed /\ HasRoom(Caller))
            ~> (pc.at = "idle"))

C5_Witness ==
    /\ pc.at = "self_sending" /\ pc.op = "send_self_message"
    /\ ~mailbox[Caller].closed /\ HasRoom(Caller)

\* C6: in the end-to-end scenario the first E2ECap sends return Ok without
\* waiting; the last one waits as long as B is paused, returns Ok only when B
\* runs and its mailbox has room again, and does return; A is in the protected
\* zone whenever it waits.
C6_EndToEnd ==
    /\ [](pc.at = "sending" => calls = E2ECap + 1)
    /\ [](result.val \in {"-", "Ok"})
    /\ []((calls = E2ECap + 1 /\ actor_state[Peer] = "Paused") => pc.at = "sending")
    /\ [](pc.at = "sending" => Classify(progress[Caller]) = "alive" /\ Protected(progress[Caller]))
    /\ [][(pc.at = "sending" /\ pc'.at = "idle")
            => /\ actor_state[Peer] = "Running"
               /\ Len(mailbox[Peer].msgs) < E2ECap
               /\ result'.val = "Ok"
               /\ mailbox'[Peer].msgs = Append(mailbox[Peer].msgs, Message(E2ECap + 1))]_vars
    /\ <>(calls = E2ECap + 1 /\ pc.at = "idle" /\ result.val = "Ok")

C6_Witness ==
    /\ pc.at = "sending" /\ calls = E2ECap + 1
    /\ actor_state[Peer] = "Paused"
    /\ Len(mailbox[Peer].msgs) = E2ECap

\* C7: whenever no peer send is in progress, the sender's zone level is what the
\* handler's own guards account for: the guard of a peer send is released on
\* return, with Ok or with the send's error.
C7_GuardReleased ==
    pc.at = "idle" => ZoneLevel(progress[Caller]) = guards

C7_Witness ==
    /\ pc.at = "idle" /\ result.op \in PeerSendOps /\ result.val = "Err"
    /\ guards = 1

\* C8: a scheduled message reaches the own mailbox only after its delay has
\* elapsed, only as a command, and no ordinary message that was waiting at its
\* delivery is taken by the run loop while it is still pending.
Pending(mb) ==
    {mailbox[mb].cmds[i] : i \in 1..Len(mailbox[mb].cmds)}
        \cup {mailbox[mb].msgs[i] : i \in 1..Len(mailbox[mb].msgs)}
TakesOrdinary(mb) ==
    /\ mailbox[mb].msgs # <<>>
    /\ mailbox'[mb] = [mailbox[mb] EXCEPT !.msgs = Tail(@)]
C8_ScheduledDelivery ==
    /\ [](\A m \in Pending(Caller) : m.k = "hp" => m.ok)
    /\ [](\A i \in 1..Len(mailbox[Caller].msgs) : mailbox[Caller].msgs[i].k = "msg")
    /\ [][TakesOrdinary(Caller)
            => \A s \in Pending(Caller) :
                 s.k = "hp" => Head(mailbox[Caller].msgs).n \notin s.behind]_vars

C8_Witness ==
    \E i \in 1..Len(mailbox[Caller].cmds) :
        /\ mailbox[Caller].cmds[i].k = "hp"
        /\ mailbox[Caller].cmds[i].d >= 1
        /\ mailbox[Caller].cmds[i].behind # {}
        /\ mailbox[Caller].msgs # <<>>

\* C9: a scheduling call returns no error value, whatever the send to the
\* scheduler returned; when the scheduler's mailbox is closed the request is
\* dropped; when the timer fires on a closed own mailbox the message is dropped;
\* neither changes a run-state or the kill switch.
ScheduleReturns ==
    /\ pc'.at = "idle" /\ result'.op \in SchedOps
    /\ (pc.op \in SchedOps \/ calls' = calls + 1)
FiresOnClosed ==
    /\ timers' # timers /\ timers' \subseteq timers
    /\ mailbox[Caller].closed
C9_SchedulingIsSilent ==
    /\ [][ScheduleReturns
            => /\ result'.val = "unit"
               /\ actor_state' = actor_state /\ kill_switch' = kill_switch
               /\ tpc' = tpc
               /\ (mailbox[Sched].closed => mailbox' = mailbox /\ timers' = timers)]_vars
    /\ [][FiresOnClosed
            => /\ mailbox' = mailbox /\ result' = result
               /\ actor_state' = actor_state /\ kill_switch' = kill_switch]_vars

C9_Witness ==
    /\ result.op \in SchedOps /\ result.raw = "Err" /\ result.val = "unit"
    /\ pc.at = "idle" /\ mailbox[Sched].closed
    /\ kill_switch = "alive" /\ actor_state[Caller] = "Running"

\* C10: once the kill switch is tripped, no step of any actor untrips it.
C10_KillSwitchMonotonic ==
    [][kill_switch = "dead" => kill_switch' = "dead"]_vars

C10_Witness ==
    /\ kill_switch = "dead" /\ tpc = "quiet"
    /\ actor_state[Peer] = "Terminated" /\ calls > 0

\* C11: is_failure is false for OnDemand, Finished and KillSwitch and true for
\* DownstreamClosed and for Failure with every cause; a terminate call on an
\* untripped kill switch trips it exactly for the reasons the table marks true.
TerminateEnters == tpc = "none" /\ tpc' # "none"
TerminateLeaves == tpc # "none" /\ tpc' = "none"
C11_IsFailureTable ==
    /\ [](/\ is_failure(OnDemand) = FALSE
          /\ is_failure(DownstreamClosed) = TRUE
          /\ \A cause \in Causes : is_failure(Failure(cause)) = TRUE
          /\ is_failure(Finished) = FALSE
          /\ is_failure(KillSwitch) = FALSE)
    /\ [][(TerminateEnters /\ kill_switch = "alive")
            => ((kill_switch' = "dead")
                  <=> (termination'.tag \in {"DownstreamClosed", "Failure"}))]_vars

C11_Witness ==
    /\ tpc # "none" /\ termination = KillSwitch
    /\ kill_switch = "alive" /\ terminated_by = "none"

\* C12: every SendError value, WouldDeadlock included, converts to
\* DownstreamClosed, which is a failure; when a handler passes a send error on
\* and the run loop terminates with it, the kill switch is tripped during the
\* call and the run-state is terminal on return.
C12_SendErrorIsFailure ==
    /\ [](\A e \in SendErrors :
            /\ From_SendError(e).tag = "DownstreamClosed"
            /\ is_failure(From_SendError(e)))
    /\ [][(TerminateEnters /\ termination'.from \in SendErrors)
            => /\ termination'.tag = "DownstreamClosed"
               /\ result.val = termination'.from
               /\ kill_switch' = "dead"]_vars
    /\ [][(TerminateLeaves /\ termination.from \in SendErrors)
            => (kill_switch' = "dead" /\ actor_state'[Caller] = "Terminated")]_vars

C12_Witness ==
    /\ termination.from = "WouldDeadlock" /\ termination.tag = "DownstreamClosed"
    /\ result.op = "send_self_message_blocking"
    /\ tpc = "none" /\ terminated_by = "failing"
    /\ kill_switch = "dead" /\ actor_state[Caller] = "Terminated"

\* C13: no step of send_self_message_blocking or send_self_message, the call,
\* the wait or the return, changes the liveness tracker; an actor suspended in
\* send_self_message is in the protected zone only as far as guards of its own
\* put it there, and with none it is not protected.
SelfSendStep ==
    \/ BlockingSelfSendStep
    \/ AsyncSelfSendStep
    \/ (pc.at = "self_sending" /\ pc'.at = "idle")
C13_SelfSendsTakeNoExemption ==
    /\ [][SelfSendStep => progress' = progress]_vars
    /\ [](pc.at = "self_sending" => ZoneLevel(progress[Caller]) = guards)
    /\ []((pc.at = "self_sending" /\ guards = 0) => ~Protected(progress[Caller]))

C13_Witness ==
    /\ pc.at = "self_sending" /\ pc.op = "send_self_message" /\ SelfFull
    /\ guards = 0 /\ Classify(progress[Caller]) = "stalled"

\* C14: in every state any other thread can observe, a context whose run-state
\* is terminal with a failing termination under way or returned has its kill
\* switch tripped; the switch is tripped from the first step of such a call on.
C14_KillBeforeTerminal ==
    /\ (tpc = "failing" => kill_switch = "dead")
    /\ ((actor_state[Caller] = "Terminated" /\ (tpc = "failing" \/ terminated_by = "failing"))
          => kill_switch = "dead")

C14_Witness ==
    /\ actor_state[Caller] = "Terminated" /\ terminated_by = "failing"
    /\ termination.tag = "Failure" /\ tpc = "none"
    /\ kill_switch = "dead" /\ actor_state[Peer] = "Running"

kill_switch_through(h) == kill_switch
C16_ClonesShareState ==
    /\ [](\A h1, h2 \in AClones : get_state(deref(h1)) = get_state(deref(h2)))
    /\ [][\A h1, h2 \in AClones :
            get_state(deref(h1))' # get_state(deref(h1))
                => get_state(deref(h2))' = get_state(deref(h1))']_vars
    /\ [](\A h1, h2 \in AClones : kill_switch_through(h1) = kill_switch_through(h2))

C16_Witness ==
    /\ get_state(deref("A2")) = "Paused" /\ get_state(deref("A0")) = "Paused"
    /\ get_state(deref("B0")) = "Terminated" /\ kill_switch_through("A1") = "dead"

\* C17: the ordinary messages A sent to one receiver wait in its mailbox in the
\* order of the calls that sent them, and the run loop takes them in that order:
\* the one it takes was sent before every one still waiting or still being
\* sent.  What may be taken ahead of a waiting ordinary message is a command,
\* and the only commands are the scheduler's high-priority messages.
InSendOrder(q) == \A i, j \in 1..Len(q) : i < j => q[i].n < q[j].n
TakesCommand(mb) ==
    /\ mailbox[mb].cmds # <<>>
    /\ mailbox'[mb] = [mailbox[mb] EXCEPT !.cmds = Tail(@)]
C17_SendOrder ==
    /\ [](\A mb \in Actors : InSendOrder(mailbox[mb].msgs))
    /\ [](\A mb \in Actors : \A i \in 1..Len(mailbox[mb].cmds) :
            mailbox[mb].cmds[i].k = "hp")
    /\ [][\A mb \in Actors : TakesOrdinary(mb)
            => /\ \A i \in 2..Len(mailbox[mb].msgs) :
                     Head(mailbox[mb].msgs).n < mailbox[mb].msgs[i].n
               /\ (pc.at # "idle" /\ pc.to = mb) => Head(mailbox[mb].msgs).n < pc.m.n]_vars
    /\ [][\A mb \in Actors : (TakesCommand(mb) /\ mailbox[mb].msgs # <<>>)
            => Head(mailbox[mb].cmds).k = "hp"]_vars

C17_Witness ==
    /\ Len(mailbox[Peer].msgs) = E2ECap
    /\ pc.at = "sending" /\ pc.to = Peer /\ pc.m.n = E2ECap + 1
    /\ mailbox[Peer].msgs[1].n = 1 /\ mailbox[Peer].msgs[2].n = 2

\* C18: a scheduling call makes one send to the scheduler's mailbox: when it
\* returns, one ScheduleEvent carrying its message has been appended there if the
\* send succeeded and nothing otherwise, and the own mailbox is as it was when
\* the call started; while the call waits the caller is in the protected zone;
\* the firing of a timer changes only the own mailbox, by at most one
\* high-priority command; and no scheduled message ever exists twice.
ScheduleWaits == calls' = calls + 1 /\ pc'.at = "sending" /\ pc'.op \in SchedOps
TimerFires == timers' # timers /\ timers' \subseteq timers
Count(q, n) == Cardinality({i \in 1..Len(q) : q[i].n = n})
Copies(n) ==
    Count(mailbox[Sched].msgs, n) + Count(mailbox[Caller].cmds, n)
        + Cardinality({t \in timers : t.n = n})
        + (IF pc.at = "sending" /\ pc.op \in SchedOps /\ pc.m.n = n THEN 1 ELSE 0)
C18_OneProtectedRequest ==
    /\ [][ScheduleReturns
            => /\ mailbox'[Caller] = mailbox[Caller] /\ mailbox'[Peer] = mailbox[Peer]
               /\ IF result'.raw = "Ok"
                  THEN /\ Len(mailbox'[Sched].msgs) = Len(mailbox[Sched].msgs) + 1
                       /\ SubSeq(mailbox'[Sched].msgs, 1, Len(mailbox[Sched].msgs))
                             = mailbox[Sched].msgs
                       /\ mailbox'[Sched].msgs[Len(mailbox'[Sched].msgs)].k = "ScheduleEvent"
                       /\ mailbox'[Sched].msgs[Len(mailbox'[Sched].msgs)].n = calls'
                  ELSE mailbox' = mailbox]_vars
    /\ [][ScheduleWaits => mailbox' = mailbox]_vars
    /\ []((pc.at = "sending" /\ pc.op \in SchedOps) => Protected(progress[Caller]))
    /\ [][TimerFires
            => /\ mailbox'[Sched] = mailbox[Sched] /\ mailbox'[Peer] = mailbox[Peer]
               /\ mailbox'[Caller].msgs = mailbox[Caller].msgs
               /\ \/ mailbox'[Caller].cmds = mailbox[Caller].cmds
                  \/ \E t \in timers \ timers' :
                       /\ mailbox'[Caller].cmds
                             = Append(mailbox[Caller].cmds, HighPriorityMessage(t))
                       /\ HighPriorityMessage(t).k = "hp"]_vars
    /\ [](\A n \in 1..MaxCalls : Copies(n) <= 1)

C18_Witness ==
    /\ mailbox[Caller].cmds # <<>> /\ Head(mailbox[Caller].cmds).n = 1
    /\ pc.at = "idle" /\ result.op \in SchedOps /\ result.raw = "Ok"
    /\ mailbox[Sched].msgs # <<>> /\ Head(mailbox[Sched].msgs).n = MaxCalls
    /\ mailbox[Caller].msgs = <<>> /\ timers = {}

\* C19: in every state the instance name of each context is its own mailbox's
\* and its own-mailbox and scheduler-mailbox bindings are those new() was given;
\* no step of any operation changes them, so of a context's fields only the
\* run-state, the liveness tracker and the kill switch ever change.
C19_BindingFixed ==
    /\ [](\A a \in Actors :
            /\ actor_instance_name(a) = a
            /\ self_mailbox(a) = a
            /\ inner[a] = ActorContext_new(a, Sched))
    /\ [][inner' = inner]_vars

C19_Witness ==
    /\ actor_instance_name(Caller) = Caller /\ self_mailbox(Caller) = Caller
    /\ actor_state[Caller] = "Terminated" /\ kill_switch = "dead"
    /\ guards = 1 /\ Protected(progress[Caller])
    /\ calls = MaxCalls /\ result.op \in SchedOps
    /\ mailbox[Caller].msgs # <<>>

\* C20: a call of send_self_message_blocking returns in its one step, with Ok
\* and the message appended once, as an ordinary message, to the own mailbox and
\* nothing else changed, or with WouldDeadlock and every mailbox unchanged; it
\* returns Ok exactly when the own mailbox is open and has room, so a closed own
\* mailbox is reported as WouldDeadlock too.
C20_BlockingSelfSendOutcomes ==
    [][BlockingSelfSendStep
         => /\ pc'.at = "idle" /\ result'.op = "send_self_message_blocking"
            /\ result'.val \in {"Ok", "WouldDeadlock"}
            /\ (result'.val = "Ok") <=> (~mailbox[Caller].closed /\ HasRoom(Caller))
            /\ IF result'.val = "Ok"
               THEN mailbox' = [mailbox EXCEPT ![Caller].msgs = Append(@, Message(calls'))]
               ELSE mailbox' = mailbox]_vars

C20_Witness ==
    /\ result.op = "send_self_message_blocking" /\ result.val = "WouldDeadlock"
    /\ pc.at = "idle" /\ mailbox[Caller].closed

====
